---- MODULE Spec2Model ----
(***************************************************************************)
(* Model of pkg/experiment/querybackend/query_tree.go: the tree query      *)
(* executor (queryTree), the tree report aggregator (treeAggregator), the  *)
(* query type registry they are registered with, and the raft leader       *)
(* health observer (HealthObserver, raftService) of the same file.         *)
(*                                                                         *)
(* A pointer that may be nil is an option: None is nil, Some(x) points to  *)
(* x.  A call path is a sequence of frame numbers; a tree maps every call  *)
(* path to the self weight recorded on it (0: no sample ends there).       *)
(***************************************************************************)
EXTENDS Integers, Sequences, FiniteSets, TLC

\* ------------------------------------------------------------------ bounds
NFrames == 2
MaxDepth == 2
MaxCalls == 3
MaxPerm == 3
NumCallers == 2
MaxRows == 2
MaxRegs == 3
MaxSvc == 2

\* ----------------------------------------------------------------- options
None == <<>>
Some(x) == <<x>>
IsNil(p) == p = <<>>
Deref(p) == p[1]

\* ------------------------------------------------------------------- trees
Frames == 1..NFrames

RECURSIVE PreorderFrom(_, _, _)
\* The call paths below prefix whose last frame is at least f, at most d
\* frames deeper than prefix, in serialization order: a node before its
\* children, children by frame.
PreorderFrom(prefix, f, d) ==
    IF d = 0 \/ f > NFrames THEN <<>>
    ELSE <<Append(prefix, f)>>
            \o PreorderFrom(Append(prefix, f), 1, d - 1)
            \o PreorderFrom(prefix, f + 1, d)

Preorder == PreorderFrom(<<>>, 1, MaxDepth)

Paths == {Preorder[i] : i \in 1..Len(Preorder)}

\* The root (the empty path) is position 0; every other path has its index.
Pos(p) == IF p = <<>> THEN 0 ELSE CHOOSE i \in 1..Len(Preorder) : Preorder[i] = p

IsPrefix(p, q) == Len(p) <= Len(q) /\ SubSeq(q, 1, Len(p)) = p

EmptyTree == [p \in Paths |-> 0]

RECURSIVE SumOver(_, _)
SumOver(t, S) ==
    IF S = {} THEN 0
    ELSE LET p == CHOOSE x \in S : TRUE IN t[p] + SumOver(t, S \ {p})

\* Total weight of the node at path p: its self weight and its descendants'.
Total(t, p) == SumOver(t, {q \in Paths : IsPrefix(p, q)})

\* The nodes of a tree: the root and every path some sample runs through.
Nodes(t) ==
    IF Total(t, <<>>) = 0 THEN {}
    ELSE {<<>>} \cup {p \in Paths : Total(t, p) > 0}

NodeCount(t) == Cardinality(Nodes(t))

\* Tree.Merge: the weights of equal call paths add up.
MergeTree(t, u) == [p \in Paths |-> t[p] + u[p]]

\* Truncation keeps the maxNodes heaviest nodes; of two nodes of equal weight
\* the one serialized first is kept.  A parent is never lighter than its
\* child and is serialized before it, so the kept nodes form a tree.
Heavier(t, q, p) ==
    \/ Total(t, q) > Total(t, p)
    \/ Total(t, q) = Total(t, p) /\ Pos(q) < Pos(p)

Kept(t, maxNodes) ==
    LET nodes == Nodes(t) IN
    {p \in nodes : Cardinality({q \in nodes : Heavier(t, q, p)}) < maxNodes}

RECURSIVE Records(_, _, _)
\* One record <<depth, frame, self weight>> per kept node, from position i on.
Records(t, keep, i) ==
    IF i > Len(Preorder) THEN <<>>
    ELSE LET p == Preorder[i] IN
         (IF p \in keep THEN <<<<Len(p), p[Len(p)], t[p]>>>> ELSE <<>>)
            \o Records(t, keep, i + 1)

\* Tree.Bytes(maxNodes): the root record, then the kept nodes in preorder.
Bytes(t, maxNodes) ==
    LET keep == Kept(t, maxNodes) IN
    IF keep = {} THEN <<>> ELSE <<<<0, 0, 0>>>> \o Records(t, keep, 1)

RECURSIVE Parse(_, _, _, _)
\* Reads the records of b from index i on; cur is the path of the last node
\* read and t the tree read so far.  A record whose depth skips a level, or
\* that names no frame, makes the bytes unreadable.
Parse(b, i, cur, t) ==
    IF i > Len(b) THEN [ok |-> TRUE, tree |-> t]
    ELSE LET d == b[i][1]
             f == b[i][2]
             w == b[i][3]
         IN IF d < 1 \/ d > Len(cur) + 1 \/ d > MaxDepth \/ f \notin Frames \/ w < 0
            THEN [ok |-> FALSE, tree |-> EmptyTree]
            ELSE LET p == Append(SubSeq(cur, 1, d - 1), f)
                 IN Parse(b, i + 1, p, [t EXCEPT ![p] = @ + w])

\* UnmarshalTree: empty bytes are the empty tree; otherwise the root record
\* comes first.
UnmarshalTree(b) ==
    IF b = <<>> THEN [ok |-> TRUE, tree |-> EmptyTree]
    ELSE IF b[1] # <<0, 0, 0>> THEN [ok |-> FALSE, tree |-> EmptyTree]
    ELSE Parse(b, 2, <<>>, EmptyTree)

\* --------------------------------------------------------- TreeMerger
\* model.NewTreeMerger(): a merger that has merged nothing.
NewTreeMerger == EmptyTree

\* (*TreeMerger).MergeTreeBytes: decode first, merge only what decoded.
MergeTreeBytes(m, b) ==
    LET u == UnmarshalTree(b) IN
    IF u.ok THEN [err |-> FALSE, tree |-> MergeTree(m, u.tree)]
    ELSE [err |-> TRUE, tree |-> m]

\* (*TreeMerger).Tree: the accumulated tree, read from the merger's fields;
\* there are none to read behind a nil pointer.
MergerTree(m) ==
    IF IsNil(m) THEN [panic |-> TRUE, tree |-> EmptyTree]
    ELSE [panic |-> FALSE, tree |-> Deref(m)]

\* ------------------------------------------------------------ reports
\* TreeQuery values: only the node cap matters here.
TreeQuery(n) == [MaxNodes |-> n]

\* (*TreeQuery).GetMaxNodes: 0 on a nil query.
GetMaxNodes(q) == IF IsNil(q) THEN 0 ELSE Deref(q).MaxNodes

\* (*TreeQuery).CloneVT: a copy; nil stays nil.
CloneVT(q) == q

TreeReport(q, b) == [Query |-> q, Tree |-> b]

\* A Report of the tree kind, and a Report of another kind (Tree is nil).
Report(r) == [Tree |-> Some(r)]
OtherKindReport == [Tree |-> None]

WeightsA == [p \in Paths |-> IF p = <<1>> THEN 10 ELSE 0]
WeightsB == [p \in Paths |-> IF p = <<2>> THEN 5 ELSE 0]
WeightsC == [p \in Paths |-> IF p = <<1>> THEN 3 ELSE IF p = <<1, 2>> THEN 4 ELSE 0]

SampleTrees == {WeightsA, WeightsB, WeightsC}

\* Bytes no tree serializes to: the first node skips a level.
BadBytes == <<<<0, 0, 0>>, <<2, 1, 5>>>>

Caps == {2, 10}

ValidReports ==
    {Report(TreeReport(Some(TreeQuery(n)), Bytes(t, n))) : n \in Caps, t \in SampleTrees}

UnreadableReports ==
    {Report(TreeReport(Some(TreeQuery(n)), BadBytes)) : n \in Caps}

Reports == ValidReports \cup UnreadableReports \cup {OtherKindReport}

IsValid(report) == report \in ValidReports

\* -------------------------------------------------------- treeAggregator
VARIABLES
    agg,      \* per aggregator: the once flag, the captured query, the merger
    calls,    \* per aggregator: the aggregate() calls made, with their outcome
    built,    \* per aggregator: what build() returned, once it was called
    input     \* per aggregator: the Reports it is to be fed, in order

aggVars == <<agg, calls, built, input>>

\* Concurrent callers of aggregate() on aggregator 1.
VARIABLES
    pc,       \* per caller: where it is in aggregate()
    arg,      \* per caller: the Report it passes
    onceM,    \* the mutex of a.init: 0 when free, else the caller holding it
    seen,     \* per caller: the accumulator as it was when its merge started
    ghost     \* who ran the once function, assigned a.tree, assigned a.query,
              \* and who found the once done after taking its mutex

concVars == <<pc, arg, onceM, seen, ghost>>

\* One run of queryTree.
VARIABLES
    qpc,      \* where the run is
    query,    \* the query it is passed
    ctxDone,  \* whether q.ctx has been cancelled
    err,      \* the local variable err: the errors it holds, none when nil
    defers,   \* the deferred calls, the last deferred first
    held,     \* per resource: how often it was opened and released
    samples,  \* the samples added to the resolver, as a tree
    rows,     \* the rows read
    ret,      \* the values the return statement returned
    qlog      \* what happened: the iterator's terminal error, the closes that
              \* failed, whether resolver.Tree() was called

qtVars == <<qpc, query, ctxDone, err, defers, held, samples, rows, ret, qlog>>

\* The query type registry.
VARIABLES
    registry, \* per query kind: its descriptor, none when not registered
    regLog    \* whether init() has run, the registrations attempted, the
              \* first descriptor offered per kind, the last registration
              \* and the last lookup with their results

regVars == <<registry, regLog>>

\* raftleader.HealthObserver, for one (raft, service) key.
VARIABLES
    hsMu,       \* hs.mu: the client holding it, 0 when free
    registered, \* hs.registered[k]: the service stored, 0 when k is absent
    clients,    \* per client: where its Register or Deregister call is,
                \* the service it works on, the status updateStatus read
    svcs,       \* per raftService: the length of c, whether stop and done
                \* are closed, where run() is, the status it read
    nsvc,       \* the number of raftService values created
    raftSt,     \* the raft node: whether it is leader, its observers, and
                \* the delivery of a leader observation in progress
    status,     \* the health server's status of the service
    hlog        \* the status updateStatus wrote last for each service not
                \* stopped, the services whose stop branch wrote, whose
                \* Deregister returned, and that wrote after it returned

hoVars == <<hsMu, registered, clients, svcs, nsvc, raftSt, status, hlog>>

Aggs == {1, 2}

\* new(treeAggregator): the zero value.
newTreeAggregator == [done |-> FALSE, query |-> None, tree |-> None]

\* The function passed to a.init.Do.  r is report.Tree; reading r.Query
\* through a nil r panics after a.tree has been assigned.
InitFunc(a, r) ==
    LET a1 == [a EXCEPT !.tree = Some(NewTreeMerger)] IN
    IF IsNil(r) THEN [agg |-> a1, panic |-> TRUE]
    ELSE [agg |-> [a1 EXCEPT !.query = CloneVT(Deref(r).Query)], panic |-> FALSE]

\* A once that runs its function on every call.
OnceDoEveryCall(a, r) ==
    LET res == InitFunc(a, r) IN
    [agg |-> [res.agg EXCEPT !.done = TRUE], panic |-> res.panic]

\* sync.Once.Do: the function runs on the first call only; the once is done
\* when the function returns, also when it returns by panicking.
OnceDo(a, r) ==
    IF a.done THEN [agg |-> a, panic |-> FALSE]
    ELSE LET res == InitFunc(a, r) IN
         [agg |-> [res.agg EXCEPT !.done = TRUE], panic |-> res.panic]

\* The merge of line 85 storing the decoded tree even when decoding failed
\* half way: the accumulator is replaced by what was read.
MergeStepLossy(a, r) ==
    IF IsNil(r) \/ IsNil(a.tree) THEN [agg |-> a, out |-> "panic"]
    ELSE LET m == MergeTreeBytes(Deref(a.tree), Deref(r).Tree) IN
         [agg |-> [a EXCEPT !.tree = Some(IF m.err THEN EmptyTree ELSE m.tree)],
          out |-> IF m.err THEN "error" ELSE "ok"]

\* The merge of line 85 applied twice to the same Report.
MergeStepTwice(a, r) ==
    IF IsNil(r) \/ IsNil(a.tree) THEN [agg |-> a, out |-> "panic"]
    ELSE LET m == MergeTreeBytes(Deref(a.tree), Deref(r).Tree)
             n == MergeTreeBytes(m.tree, Deref(r).Tree)
         IN [agg |-> [a EXCEPT !.tree = Some(n.tree)],
             out |-> IF m.err THEN "error" ELSE "ok"]

\* Line 85: a.tree.MergeTreeBytes(r.Tree).  Reading r.Tree through a nil r
\* panics, and so does a merge through a nil merger.
MergeStep(a, r) ==
    IF IsNil(r) \/ IsNil(a.tree) THEN [agg |-> a, out |-> "panic"]
    ELSE LET m == MergeTreeBytes(Deref(a.tree), Deref(r).Tree) IN
         [agg |-> [a EXCEPT !.tree = Some(m.tree)],
          out |-> IF m.err THEN "error" ELSE "ok"]

\* aggregate() storing the query of every Report it is passed.
aggregateRecapture(a, report) ==
    LET r == report.Tree
        d == OnceDo(a, r)
    IN IF d.panic THEN [agg |-> d.agg, out |-> "panic"]
       ELSE IF IsNil(r) THEN MergeStep(d.agg, r)
       ELSE MergeStep([d.agg EXCEPT !.query = CloneVT(Deref(r).Query)], r)

\* (*treeAggregator).aggregate, one whole call.
aggregate(a, report) ==
    LET r == report.Tree
        d == OnceDo(a, r)
    IN IF d.panic THEN [agg |-> d.agg, out |-> "panic"]
       ELSE MergeStep(d.agg, r)

\* build() serializing the whole accumulator, whatever the captured cap.
buildUntruncated(a) ==
    LET t == MergerTree(a.tree) IN
    IF t.panic THEN [out |-> "panic", report |-> None]
    ELSE [out |-> "ok",
          report |-> Some(Report(TreeReport(a.query,
                        Bytes(t.tree, NodeCount(t.tree)))))]

\* (*treeAggregator).build: the captured query and the accumulated tree cut
\* to the captured cap.  a.tree.Tree() through a nil merger panics.
build(a) ==
    LET t == MergerTree(a.tree) IN
    IF t.panic THEN [out |-> "panic", report |-> None]
    ELSE [out |-> "ok",
          report |-> Some(Report(TreeReport(a.query,
                        Bytes(t.tree, GetMaxNodes(a.query)))))]

AggregateCall(i, report) ==
    /\ IsNil(built[i])
    /\ LET res == aggregate(agg[i], report) IN
       /\ agg' = [agg EXCEPT ![i] = res.agg]
       /\ calls' = [calls EXCEPT ![i] = Append(@, [report |-> report, out |-> res.out])]
    /\ UNCHANGED <<built, input, concVars, qtVars, regVars, hoVars>>

BuildCall(i) ==
    /\ IsNil(built[i])
    /\ built' = [built EXCEPT ![i] = Some(build(agg[i]))]
    /\ UNCHANGED <<agg, calls, input, concVars, qtVars, regVars, hoVars>>

AggInit ==
    /\ agg = [i \in Aggs |-> newTreeAggregator]
    /\ calls = [i \in Aggs |-> <<>>]
    /\ built = [i \in Aggs |-> None]

\* One aggregator, its calls serialized by the caller, any Reports.
Aggregate ==
    \E report \in Reports :
        /\ Len(calls[1]) < MaxCalls
        /\ AggregateCall(1, report)

Build == BuildCall(1)

vars == <<aggVars, concVars, qtVars, regVars, hoVars>>

Callers == 1..NumCallers

\* The Reports concurrent callers pass.
ConcReports ==
    {Report(TreeReport(Some(TreeQuery(10)), Bytes(WeightsA, 10))),
     Report(TreeReport(Some(TreeQuery(2)), Bytes(WeightsB, 2))),
     OtherKindReport}

ConcIdle ==
    /\ pc = [c \in Callers |-> "idle"]
    /\ arg = [c \in Callers |-> OtherKindReport]
    /\ onceM = 0
    /\ seen = [c \in Callers |-> None]
    /\ ghost = [ran |-> <<>>, trees |-> <<>>, queries |-> <<>>, late |-> {}]

Resources == {"entries", "profiles", "resolver"}

\* The query kinds: the tree query of this file and two others.
QueryKinds == {"QUERY_TREE", "QUERY_A", "QUERY_B"}

NoCall == [kind |-> "", had |-> FALSE, result |-> "", desc |-> None]

\* Two clients of the HealthObserver, each calling Register and Deregister
\* as it likes, concurrently with the other.
Clients == {1, 2}
Services == 1..MaxSvc
NoSvc == 0

\* NewRaftLeaderHealthObserver: an empty map; no service created; the
\* health server has no status for the service yet.
HOIdle ==
    /\ hsMu = 0
    /\ registered = NoSvc
    /\ clients = [h \in Clients |-> [pc |-> "idle", svc |-> NoSvc, st |-> "UNKNOWN"]]
    /\ svcs = [s \in Services |->
                [c |-> 0, stop |-> FALSE, done |-> FALSE, pc |-> "none", st |-> "UNKNOWN"]]
    /\ nsvc = 0
    /\ raftSt = [leader |-> FALSE, observers |-> {}, phase |-> "idle",
                 todo |-> {}, cur |-> NoSvc]
    /\ status = "UNKNOWN"
    /\ hlog = [written |-> [s \in Services |-> "UNKNOWN"], stopped |-> {},
               returned |-> {}, late |-> {}]

\* The registry before any init() has run.
RegIdle ==
    /\ registry = [k \in QueryKinds |-> None]
    /\ regLog = [initRan |-> FALSE, attempts |-> 0,
                 first |-> [k \in QueryKinds |-> None],
                 reg |-> NoCall, lookup |-> NoCall]

QTIdle ==
    /\ qpc = "start"
    /\ ctxDone = FALSE
    /\ err = <<>>
    /\ defers = <<>>
    /\ held = [x \in Resources |-> [opened |-> 0, released |-> 0]]
    /\ samples = EmptyTree
    /\ rows = 0
    /\ ret = None
    /\ qlog = [iterErr |-> <<>>, closeFailed |-> {}, treeAsked |-> FALSE]

Init ==
    /\ AggInit
    /\ input = [i \in Aggs |-> <<>>]
    /\ ConcIdle
    /\ QTIdle
    /\ RegIdle
    /\ HOIdle
    /\ query = TreeQuery(10)

Next == Aggregate \/ Build

Spec == Init /\ [][Next]_vars

\* Two fresh aggregators fed the same valid Reports in two orders, the
\* second after the first has built.
Orders(n) == {f \in [1..n -> 1..n] : \A i, j \in 1..n : f[i] = f[j] => i = j}

PermInit ==
    /\ AggInit
    /\ ConcIdle
    /\ QTIdle
    /\ RegIdle
    /\ HOIdle
    /\ query = TreeQuery(10)
    /\ \E n \in 0..MaxPerm :
        \E s \in [1..n -> ValidReports] :
            \E f \in Orders(n) :
                input = [i \in Aggs |-> IF i = 1 THEN s ELSE [k \in 1..n |-> s[f[k]]]]

Turn(i) == i = 1 \/ ~IsNil(built[1])

PermFeed ==
    \E i \in Aggs :
        /\ Turn(i)
        /\ Len(calls[i]) < Len(input[i])
        /\ AggregateCall(i, input[i][Len(calls[i]) + 1])

PermBuild ==
    \E i \in Aggs :
        /\ Turn(i)
        /\ Len(calls[i]) = Len(input[i])
        /\ BuildCall(i)

PermNext == PermFeed \/ PermBuild

SpecPerm == PermInit /\ [][PermNext]_vars

\* ------------------------------------------- aggregate(), step by step
\* Several goroutines call aggregate() on aggregator 1.  sync.Once.Do reads
\* done; when it is not set it locks the once's mutex, reads done again, and
\* only then runs the function, stores done and unlocks.

Goto(c, l) == pc' = [pc EXCEPT ![c] = l]

SetAgg(a) == agg' = [agg EXCEPT ![1] = a]

\* Line 80: a call starts with its Report.
Start(c) ==
    /\ pc[c] = "idle"
    /\ \E report \in ConcReports : arg' = [arg EXCEPT ![c] = report]
    /\ Goto(c, "fast")
    /\ UNCHANGED <<aggVars, onceM, seen, ghost, qtVars, regVars, hoVars>>

\* Once.Do: done is read without the mutex.
OnceFast(c) ==
    /\ pc[c] = "fast"
    /\ Goto(c, IF agg[1].done THEN "merge" ELSE "lock")
    /\ UNCHANGED <<aggVars, arg, onceM, seen, ghost, qtVars, regVars, hoVars>>

\* Once.doSlow: o.m.Lock().
OnceLock(c) ==
    /\ pc[c] = "lock"
    /\ onceM = 0
    /\ onceM' = c
    /\ Goto(c, "check")
    /\ UNCHANGED <<aggVars, arg, seen, ghost, qtVars, regVars, hoVars>>

\* A doSlow that runs the function without reading done again.
OnceCheckNoRecheck(c) ==
    /\ pc[c] = "check"
    /\ Goto(c, "newTree")
    /\ ghost' = [ghost EXCEPT !.ran = Append(@, c)]
    /\ UNCHANGED <<aggVars, arg, onceM, seen, qtVars, regVars, hoVars>>

\* A once that marks itself done before its function has run.
OnceCheckStoresFirst(c) ==
    /\ pc[c] = "check"
    /\ IF agg[1].done
       THEN /\ Goto(c, "unlock")
            /\ ghost' = [ghost EXCEPT !.late = @ \cup {c}]
            /\ UNCHANGED agg
       ELSE /\ Goto(c, "newTree")
            /\ ghost' = [ghost EXCEPT !.ran = Append(@, c)]
            /\ SetAgg([agg[1] EXCEPT !.done = TRUE])
    /\ UNCHANGED <<calls, built, input, arg, onceM, seen, qtVars, regVars, hoVars>>

\* Once.doSlow: done is read again under the mutex.
OnceCheck(c) ==
    /\ pc[c] = "check"
    /\ IF agg[1].done
       THEN /\ Goto(c, "unlock")
            /\ ghost' = [ghost EXCEPT !.late = @ \cup {c}]
       ELSE /\ Goto(c, "newTree")
            /\ ghost' = [ghost EXCEPT !.ran = Append(@, c)]
    /\ UNCHANGED <<aggVars, arg, onceM, seen, qtVars, regVars, hoVars>>

\* Line 82: a.tree = model.NewTreeMerger().
InitTree(c) ==
    /\ pc[c] = "newTree"
    /\ SetAgg([agg[1] EXCEPT !.tree = Some(NewTreeMerger)])
    /\ ghost' = [ghost EXCEPT !.trees = Append(@, c)]
    /\ Goto(c, "capture")
    /\ UNCHANGED <<calls, built, input, arg, onceM, seen, qtVars, regVars, hoVars>>

\* Line 83: a.query = r.Query.CloneVT(); a nil r panics, and the once's
\* deferred store and unlock run while the panic unwinds.
InitQuery(c) ==
    /\ pc[c] = "capture"
    /\ IF IsNil(arg[c].Tree)
       THEN /\ Goto(c, "storeOnPanic")
            /\ UNCHANGED <<agg, ghost>>
       ELSE /\ SetAgg([agg[1] EXCEPT !.query = CloneVT(Deref(arg[c].Tree).Query)])
            /\ ghost' = [ghost EXCEPT !.queries = Append(@, c)]
            /\ Goto(c, "store")
    /\ UNCHANGED <<calls, built, input, arg, onceM, seen, qtVars, regVars, hoVars>>

\* Once.doSlow: the deferred o.done.Store(1).
OnceStore(c) ==
    /\ pc[c] \in {"store", "storeOnPanic"}
    /\ SetAgg([agg[1] EXCEPT !.done = TRUE])
    /\ Goto(c, IF pc[c] = "store" THEN "unlock" ELSE "unlockOnPanic")
    /\ UNCHANGED <<calls, built, input, arg, onceM, seen, ghost, qtVars, regVars, hoVars>>

Returned(c, out) ==
    calls' = [calls EXCEPT ![1] = Append(@, [report |-> arg[c], out |-> out])]

\* Once.doSlow: the deferred o.m.Unlock(); a panicking call ends here.
OnceUnlock(c) ==
    /\ pc[c] \in {"unlock", "unlockOnPanic"}
    /\ onceM' = 0
    /\ IF pc[c] = "unlock"
       THEN Goto(c, "merge") /\ UNCHANGED calls
       ELSE Goto(c, "returned") /\ Returned(c, "panic")
    /\ UNCHANGED <<agg, built, input, arg, seen, ghost, qtVars, regVars, hoVars>>

\* A merge that waits until no other call is merging.
MergeEnterExclusive(c) ==
    /\ pc[c] = "merge"
    /\ \A d \in Callers : pc[d] # "merging"
    /\ IF IsNil(arg[c].Tree) \/ IsNil(agg[1].tree)
       THEN Goto(c, "returned") /\ Returned(c, "panic") /\ UNCHANGED seen
       ELSE /\ Goto(c, "merging")
            /\ seen' = [seen EXCEPT ![c] = agg[1].tree]
            /\ UNCHANGED calls
    /\ UNCHANGED <<agg, built, input, arg, onceM, ghost, qtVars, regVars, hoVars>>

\* Line 85: the call into a.tree.MergeTreeBytes(r.Tree); a nil r panics.
MergeEnter(c) ==
    /\ pc[c] = "merge"
    /\ IF IsNil(arg[c].Tree) \/ IsNil(agg[1].tree)
       THEN Goto(c, "returned") /\ Returned(c, "panic") /\ UNCHANGED seen
       ELSE /\ Goto(c, "merging")
            /\ seen' = [seen EXCEPT ![c] = agg[1].tree]
            /\ UNCHANGED calls
    /\ UNCHANGED <<agg, built, input, arg, onceM, ghost, qtVars, regVars, hoVars>>

\* Line 85: MergeTreeBytes returns.  Nothing in aggregate() keeps two calls
\* from merging at once: the result is merged into the accumulator as it is
\* now, or into the accumulator as this call found it.
MergeExit(c) ==
    /\ pc[c] = "merging"
    /\ \E base \in {agg[1].tree, seen[c]} :
        LET res == MergeStep([agg[1] EXCEPT !.tree = base], arg[c].Tree) IN
        /\ SetAgg(res.agg)
        /\ Returned(c, res.out)
    /\ Goto(c, "returned")
    /\ seen' = [seen EXCEPT ![c] = None]
    /\ UNCHANGED <<built, input, arg, onceM, ghost, qtVars, regVars, hoVars>>

ConcNext ==
    \E c \in Callers :
        \/ Start(c)
        \/ OnceFast(c)
        \/ OnceLock(c)
        \/ OnceCheck(c)
        \/ InitTree(c)
        \/ InitQuery(c)
        \/ OnceStore(c)
        \/ OnceUnlock(c)
        \/ MergeEnter(c)
        \/ MergeExit(c)

SpecConc == Init /\ [][ConcNext]_vars

\* ------------------------------------------------------------ queryTree
\* An error value is the sequence of the errors it holds; nil holds none.
NoError == <<>>
Error(name) == <<name>>

\* The samples a row of the profile stream may carry.
SampleRows ==
    {[path |-> <<1>>, value |-> 10],
     [path |-> <<2>>, value |-> 5],
     [path |-> <<1, 2>>, value |-> 4]}

Defer(call) == defers' = <<call>> \o defers

Open(x) == held' = [held EXCEPT ![x].opened = @ + 1]

\* A return statement: the results are unnamed, so their values are fixed
\* here, before the deferred calls run.
Return(report, e) ==
    /\ ret' = Some([report |-> report, err |-> e])
    /\ qpc' = "defers"

\* Lines 31-35: the iterator is opened, or the error is returned with
\* nothing to close.
OpenEntries ==
    /\ qpc = "start"
    /\ \/ /\ err' = NoError
          /\ Open("entries")
          /\ Defer("closeEntries")
          /\ qpc' = "resolve"
          /\ UNCHANGED ret
       \/ /\ \E e \in {"open", "canceled"} :
                /\ e = "canceled" => ctxDone
                /\ err' = Error(e)
                /\ Return(None, Error(e))
          /\ UNCHANGED <<held, defers>>
    /\ UNCHANGED <<hoVars, regVars, aggVars, concVars, query, ctxDone, samples, rows, qlog>>

\* Lines 37-40: columns.Resolve against the schema of the block.
ResolveColumns ==
    /\ qpc = "resolve"
    /\ \/ /\ err' = NoError
          /\ qpc' = "newProfiles"
          /\ UNCHANGED ret
       \/ /\ err' = Error("schema")
          /\ Return(None, Error("schema"))
    /\ UNCHANGED <<hoVars, regVars, aggVars, concVars, query, ctxDone, defers, held, samples, rows, qlog>>

\* Lines 42-45: the repeated-row iterator and its deferred close.
NewProfiles ==
    /\ qpc = "newProfiles"
    /\ Open("profiles")
    /\ Defer("closeProfiles")
    /\ qpc' = "newResolver"
    /\ UNCHANGED <<hoVars, regVars, aggVars, concVars, query, ctxDone, err, samples, rows, ret, qlog>>

\* A resolver whose release is not deferred.
NewResolverNoDefer ==
    /\ qpc = "newResolver"
    /\ Open("resolver")
    /\ qpc' = "loop"
    /\ UNCHANGED <<hoVars, regVars, aggVars, concVars, query, ctxDone, err, defers, samples, rows, ret, qlog>>

\* Lines 47-48: the resolver and its deferred release.
NewResolver ==
    /\ qpc = "newResolver"
    /\ Open("resolver")
    /\ Defer("release")
    /\ qpc' = "loop"
    /\ UNCHANGED <<hoVars, regVars, aggVars, concVars, query, ctxDone, err, samples, rows, ret, qlog>>

\* Lines 49-52: profiles.Next() yields a row, whose samples are added.  A
\* cancelled context yields no more rows.
NextRow ==
    /\ qpc = "loop"
    /\ ~ctxDone
    /\ rows < MaxRows
    /\ \E row \in SampleRows :
        samples' = [samples EXCEPT ![row.path] = @ + row.value]
    /\ rows' = rows + 1
    /\ UNCHANGED <<hoVars, regVars, aggVars, concVars, qpc, query, ctxDone, err, defers, held, ret, qlog>>

\* Line 49: profiles.Next() returns false: the rows are exhausted, or the
\* iterator stopped on an error; a cancelled context is such an error.
EndOfRows ==
    /\ qpc = "loop"
    /\ \E e \in {NoError, Error("truncated"), Error("canceled")} :
        /\ ctxDone <=> e = Error("canceled")
        /\ qlog' = [qlog EXCEPT !.iterErr = e]
    /\ qpc' = "checkErr"
    /\ UNCHANGED <<hoVars, regVars, aggVars, concVars, query, ctxDone, err, defers, held, samples, rows, ret>>

\* The check of the iterator's error left out.
CheckErrIgnored ==
    /\ qpc = "checkErr"
    /\ err' = qlog.iterErr
    /\ qpc' = "tree"
    /\ UNCHANGED <<hoVars, regVars, aggVars, concVars, query, ctxDone, defers, held, samples, rows, ret, qlog>>

\* Lines 53-55: err = profiles.Err().
CheckErr ==
    /\ qpc = "checkErr"
    /\ err' = qlog.iterErr
    /\ IF qlog.iterErr # NoError
       THEN Return(None, qlog.iterErr)
       ELSE qpc' = "tree" /\ UNCHANGED ret
    /\ UNCHANGED <<hoVars, regVars, aggVars, concVars, query, ctxDone, defers, held, samples, rows, qlog>>

\* Lines 57-60: resolver.Tree().
ResolveTree ==
    /\ qpc = "tree"
    /\ qlog' = [qlog EXCEPT !.treeAsked = TRUE]
    /\ \/ /\ ~ctxDone
          /\ err' = NoError
          /\ qpc' = "respond"
          /\ UNCHANGED ret
       \/ /\ \E e \in {"resolve", "canceled"} :
                /\ e = "canceled" => ctxDone
                /\ err' = Error(e)
                /\ Return(None, Error(e))
    /\ UNCHANGED <<hoVars, regVars, aggVars, concVars, query, ctxDone, defers, held, samples, rows>>

\* Lines 62-68: the Report of the tree cut to the query's cap.
Respond ==
    /\ qpc = "respond"
    /\ Return(Some(Report(TreeReport(CloneVT(Some(query)),
                                     Bytes(samples, GetMaxNodes(Some(query)))))),
              NoError)
    /\ UNCHANGED <<hoVars, regVars, aggVars, concVars, query, ctxDone, err, defers, held, samples, rows, qlog>>

\* runutil.CloseWithErrCapture(&err, closer, ...): the close error, if any,
\* is added to the error behind the pointer, here the local variable err.
CloseWithErrCapture(x, failed) ==
    /\ held' = [held EXCEPT ![x].released = @ + 1]
    /\ err' = IF failed THEN Append(err, x) ELSE err
    /\ qlog' = [qlog EXCEPT !.closeFailed = IF failed THEN @ \cup {x} ELSE @]

\* resolver.Release().
Release ==
    /\ held' = [held EXCEPT !["resolver"].released = @ + 1]
    /\ UNCHANGED <<err, qlog>>

\* The deferred calls run after the return statement, the last deferred
\* first; the function has returned when none is left.
RunDefer ==
    /\ qpc = "defers"
    /\ IF defers = <<>>
       THEN qpc' = "returned" /\ UNCHANGED <<defers, held, err, qlog>>
       ELSE /\ defers' = Tail(defers)
            /\ qpc' = qpc
            /\ \/ Head(defers) = "release" /\ Release
               \/ Head(defers) = "closeProfiles"
                    /\ \E failed \in BOOLEAN : CloseWithErrCapture("profiles", failed)
               \/ Head(defers) = "closeEntries"
                    /\ \E failed \in BOOLEAN : CloseWithErrCapture("entries", failed)
    /\ UNCHANGED <<hoVars, regVars, aggVars, concVars, query, ctxDone, samples, rows, ret>>

\* The caller cancels q.ctx while queryTree runs.
Cancel ==
    /\ qpc \notin {"defers", "returned"}
    /\ ~ctxDone
    /\ ctxDone' = TRUE
    /\ UNCHANGED <<hoVars, regVars, aggVars, concVars, qpc, query, err, defers, held, samples, rows, ret, qlog>>

QTInit ==
    /\ AggInit
    /\ input = [i \in Aggs |-> <<>>]
    /\ ConcIdle
    /\ QTIdle
    /\ RegIdle
    /\ HOIdle
    /\ query \in {TreeQuery(n) : n \in Caps}

QTNext ==
    \/ OpenEntries
    \/ ResolveColumns
    \/ NewProfiles
    \/ NewResolver
    \/ NextRow
    \/ EndOfRows
    \/ CheckErr
    \/ ResolveTree
    \/ Respond
    \/ RunDefer
    \/ Cancel

SpecQT == QTInit /\ [][QTNext]_vars

\* ------------------------------------------------- query type registry
Descriptor(kind, report, executor, factory, sections) ==
    [queryKind |-> kind, reportKind |-> report, executor |-> executor,
     aggregator |-> factory, sections |-> sections]

\* Lines 17-27: what init() registers.
TreeDescriptor ==
    Descriptor("QUERY_TREE", "REPORT_TREE", "queryTree", "newTreeAggregator",
               <<"SectionTSDB", "SectionProfiles", "SectionSymbols">>)

\* What other registrations offer, a second tree query among them.
OtherDescriptors ==
    {Descriptor(k, "REPORT_OTHER", e, "newOtherAggregator", <<"SectionTSDB">>) :
        k \in QueryKinds, e \in {"queryA", "queryB"}}

\* A registration that replaces the descriptor of a registered kind.
registerQueryTypeOverwrite(reg, d) ==
    [registry |-> [reg EXCEPT ![d.queryKind] = Some(d)], result |-> "registered"]

\* registerQueryType: a kind that is already registered is rejected and
\* keeps its descriptor.
registerQueryType(reg, d) ==
    IF ~IsNil(reg[d.queryKind]) THEN [registry |-> reg, result |-> "rejected"]
    ELSE [registry |-> [reg EXCEPT ![d.queryKind] = Some(d)], result |-> "registered"]

\* lookup: the whole descriptor, or "unsupported" and no descriptor.
lookup(reg, kind) ==
    IF IsNil(reg[kind]) THEN [result |-> "unsupported", desc |-> None]
    ELSE [result |-> "found", desc |-> reg[kind]]

Registered(d) ==
    LET out == registerQueryType(registry, d) IN
    /\ registry' = out.registry
    /\ regLog' = [regLog EXCEPT
            !.attempts = @ + 1,
            !.first[d.queryKind] = IF IsNil(@) THEN Some(d) ELSE @,
            !.reg = [kind |-> d.queryKind, had |-> ~IsNil(registry[d.queryKind]),
                     result |-> out.result, desc |-> Some(d)],
            !.initRan = @ \/ d = TreeDescriptor]

\* Lines 16-28: init() registers the tree query, once.
RunInit ==
    /\ ~regLog.initRan
    /\ Registered(TreeDescriptor)
    /\ UNCHANGED <<aggVars, concVars, qtVars, hoVars>>

\* Another registration, of any kind.
RegisterOther ==
    /\ regLog.attempts < MaxRegs
    /\ \E d \in OtherDescriptors : Registered(d)
    /\ UNCHANGED <<aggVars, concVars, qtVars, hoVars>>

\* A lookup of any kind.
Lookup ==
    /\ \E k \in QueryKinds :
        LET out == lookup(registry, k) IN
        regLog' = [regLog EXCEPT
            !.lookup = [kind |-> k, had |-> ~IsNil(registry[k]),
                        result |-> out.result, desc |-> out.desc]]
    /\ UNCHANGED <<registry, aggVars, concVars, qtVars, hoVars>>

RegInit ==
    /\ AggInit
    /\ input = [i \in Aggs |-> <<>>]
    /\ ConcIdle
    /\ QTIdle
    /\ RegIdle
    /\ HOIdle
    /\ query = TreeQuery(10)

RegNext == RunInit \/ RegisterOther \/ Lookup

SpecReg == RegInit /\ [][RegNext]_vars

\* ------------------------------------------- raftleader.HealthObserver
\* Lines 221-224: the status updateStatus derives from raft.State().
StatusOf(isLeader) == IF isLeader THEN "SERVING" ELSE "NOT_SERVING"

AtPc(h, p) == clients[h].pc = p
SetClient(h, p, s, st) == clients' = [clients EXCEPT ![h] = [pc |-> p, svc |-> s, st |-> st]]
ClientGoto(h, p) == clients' = [clients EXCEPT ![h].pc = p]
RunAt(s, p) == svcs[s].pc = p
RunGoto(s, p) == svcs' = [svcs EXCEPT ![s].pc = p]
\* server.SetServingStatus(service, st) by service s, from its stop
\* branch or from updateStatus.
SetServingStatus(s, st, stopping) ==
    /\ status' = st
    /\ hlog' = [hlog EXCEPT !.written[s] = IF stopping THEN "UNKNOWN" ELSE st,
                            !.stopped = IF stopping THEN @ \cup {s} ELSE @,
                            !.late = IF s \in hlog.returned THEN @ \cup {s} ELSE @]

\* Line 146: hs.mu.Lock().  New services are created up to MaxSvc.
RegisterLock(h) ==
    /\ AtPc(h, "idle")
    /\ hsMu = 0
    /\ registered # NoSvc \/ nsvc < MaxSvc
    /\ hsMu' = h
    /\ ClientGoto(h, "regCheck")
    /\ UNCHANGED <<registered, svcs, nsvc, raftSt, status, hlog>>
    /\ UNCHANGED <<aggVars, concVars, qtVars, regVars>>

\* A Register that creates a service whether or not the key is present.
RegisterCheckAlways(h) ==
    /\ AtPc(h, "regCheck")
    /\ nsvc < MaxSvc
    /\ nsvc' = nsvc + 1
    /\ SetClient(h, "regRead", nsvc + 1, "UNKNOWN")
    /\ UNCHANGED <<hsMu, registered, svcs, raftSt, status, hlog>>
    /\ UNCHANGED <<aggVars, concVars, qtVars, regVars>>

\* Lines 148-162: a key that is present returns at line 150; otherwise a
\* raftService with fresh channels is made.
RegisterCheck(h) ==
    /\ AtPc(h, "regCheck")
    /\ IF registered # NoSvc
       THEN ClientGoto(h, "regReturn") /\ UNCHANGED nsvc
       ELSE /\ nsvc' = nsvc + 1
            /\ SetClient(h, "regRead", nsvc + 1, "UNKNOWN")
    /\ UNCHANGED <<hsMu, registered, svcs, raftSt, status, hlog>>
    /\ UNCHANGED <<aggVars, concVars, qtVars, regVars>>

\* Lines 147, 150: the return of a Register that found the key present
\* runs the deferred Unlock.
RegisterReturn(h) ==
    /\ AtPc(h, "regReturn")
    /\ hsMu' = 0
    /\ ClientGoto(h, "idle")
    /\ UNCHANGED <<registered, svcs, nsvc, raftSt, status, hlog>>
    /\ UNCHANGED <<aggVars, concVars, qtVars, regVars>>

\* Line 163, updateStatus, lines 221-224: raft.State() is read.
RegisterRead(h) ==
    /\ AtPc(h, "regRead")
    /\ SetClient(h, "regWrite", clients[h].svc, StatusOf(raftSt.leader))
    /\ UNCHANGED <<hsMu, registered, svcs, nsvc, raftSt, status, hlog>>
    /\ UNCHANGED <<aggVars, concVars, qtVars, regVars>>

\* Line 163, updateStatus, line 228: the status read is written.
RegisterWrite(h) ==
    /\ AtPc(h, "regWrite")
    /\ SetServingStatus(clients[h].svc, clients[h].st, FALSE)
    /\ ClientGoto(h, "regObserve")
    /\ UNCHANGED <<hsMu, registered, svcs, nsvc, raftSt>>
    /\ UNCHANGED <<aggVars, concVars, qtVars, regVars>>

\* Lines 164-169: go svc.run(), which waits in its select, and a blocking
\* observer on svc.c is registered with raft; raft adds it under the
\* write lock of its observers, which waits for a delivery in progress.
RegisterObserver(h) ==
    /\ AtPc(h, "regObserve")
    /\ raftSt.phase # "observing"
    /\ RunGoto(clients[h].svc, "select")
    /\ raftSt' = [raftSt EXCEPT !.observers = @ \cup {clients[h].svc}]
    /\ ClientGoto(h, "regStore")
    /\ UNCHANGED <<hsMu, registered, nsvc, status, hlog>>
    /\ UNCHANGED <<aggVars, concVars, qtVars, regVars>>

\* Lines 170-171: the service is stored and the deferred Unlock runs.
RegisterStore(h) ==
    /\ AtPc(h, "regStore")
    /\ registered' = clients[h].svc
    /\ hsMu' = 0
    /\ SetClient(h, "idle", NoSvc, "UNKNOWN")
    /\ UNCHANGED <<svcs, nsvc, raftSt, status, hlog>>
    /\ UNCHANGED <<aggVars, concVars, qtVars, regVars>>

\* Lines 174-179: under hs.mu the key is looked up and deleted; an absent
\* key returns.
DeregisterLookup(h) ==
    /\ AtPc(h, "idle")
    /\ hsMu = 0
    /\ registered' = NoSvc
    /\ IF registered = NoSvc
       THEN UNCHANGED clients
       ELSE SetClient(h, "deregClose", registered, "UNKNOWN")
    /\ UNCHANGED <<hsMu, svcs, nsvc, raftSt, status, hlog>>
    /\ UNCHANGED <<aggVars, concVars, qtVars, regVars>>

\* Line 180: close(svc.stop).
DeregisterClose(h) ==
    /\ AtPc(h, "deregClose")
    /\ svcs' = [svcs EXCEPT ![clients[h].svc].stop = TRUE]
    /\ ClientGoto(h, "deregWait")
    /\ UNCHANGED <<hsMu, registered, nsvc, raftSt, status, hlog>>
    /\ UNCHANGED <<aggVars, concVars, qtVars, regVars>>

\* A Deregister that returns without waiting for done.
DeregisterNoWait(h) ==
    /\ AtPc(h, "deregWait")
    /\ hlog' = [hlog EXCEPT !.returned = @ \cup {clients[h].svc}]
    /\ SetClient(h, "idle", NoSvc, "UNKNOWN")
    /\ UNCHANGED <<hsMu, registered, svcs, nsvc, raftSt, status>>
    /\ UNCHANGED <<aggVars, concVars, qtVars, regVars>>

\* Lines 181-183: <-svc.done, then the return.
DeregisterWait(h) ==
    /\ AtPc(h, "deregWait")
    /\ svcs[clients[h].svc].done
    /\ hlog' = [hlog EXCEPT !.returned = @ \cup {clients[h].svc}]
    /\ SetClient(h, "idle", NoSvc, "UNKNOWN")
    /\ UNCHANGED <<hsMu, registered, svcs, nsvc, raftSt, status>>
    /\ UNCHANGED <<aggVars, concVars, qtVars, regVars>>

\* Lines 207-208: the select takes an observation from svc.c.
RunRecv(s) ==
    /\ RunAt(s, "select")
    /\ svcs[s].c = 1
    /\ svcs' = [svcs EXCEPT ![s].c = 0, ![s].pc = "read"]
    /\ UNCHANGED <<hsMu, registered, clients, nsvc, raftSt, status, hlog>>
    /\ UNCHANGED <<aggVars, concVars, qtVars, regVars>>

\* Lines 207, 210: the select takes the closed stop; when svc.c holds an
\* observation too, either case may be taken.
RunStop(s) ==
    /\ RunAt(s, "select")
    /\ svcs[s].stop
    /\ RunGoto(s, "stopping")
    /\ UNCHANGED <<hsMu, registered, clients, nsvc, raftSt, status, hlog>>
    /\ UNCHANGED <<aggVars, concVars, qtVars, regVars>>

\* Line 209, updateStatus, lines 221-224.
RunRead(s) ==
    /\ RunAt(s, "read")
    /\ svcs' = [svcs EXCEPT ![s].st = StatusOf(raftSt.leader), ![s].pc = "write"]
    /\ UNCHANGED <<hsMu, registered, clients, nsvc, raftSt, status, hlog>>
    /\ UNCHANGED <<aggVars, concVars, qtVars, regVars>>

\* Line 209, updateStatus, line 228.
RunWrite(s) ==
    /\ RunAt(s, "write")
    /\ SetServingStatus(s, svcs[s].st, FALSE)
    /\ svcs' = [svcs EXCEPT ![s].st = "UNKNOWN", ![s].pc = "select"]
    /\ UNCHANGED <<hsMu, registered, clients, nsvc, raftSt>>
    /\ UNCHANGED <<aggVars, concVars, qtVars, regVars>>

\* Line 213: the stop branch writes NOT_SERVING.
RunStopSet(s) ==
    /\ RunAt(s, "stopping")
    /\ SetServingStatus(s, "NOT_SERVING", TRUE)
    /\ RunGoto(s, "deregObs")
    /\ UNCHANGED <<hsMu, registered, clients, nsvc, raftSt>>
    /\ UNCHANGED <<aggVars, concVars, qtVars, regVars>>

\* Line 214: raft removes the observer under the write lock of its
\* observers, which waits for a delivery in progress.
RunDeregisterObserver(s) ==
    /\ RunAt(s, "deregObs")
    /\ raftSt.phase # "observing"
    /\ raftSt' = [raftSt EXCEPT !.observers = @ \ {s}]
    /\ RunGoto(s, "return")
    /\ UNCHANGED <<hsMu, registered, clients, nsvc, status, hlog>>
    /\ UNCHANGED <<aggVars, concVars, qtVars, regVars>>

\* Lines 203-205, 215: the return runs the deferred close(svc.done).  No
\* one receives from or sends on svc.c any more: what it holds is dropped.
RunReturn(s) ==
    /\ RunAt(s, "return")
    /\ svcs' = [svcs EXCEPT ![s].done = TRUE, ![s].pc = "exited", ![s].c = 0]
    /\ UNCHANGED <<hsMu, registered, clients, nsvc, raftSt, status, hlog>>
    /\ UNCHANGED <<aggVars, concVars, qtVars, regVars>>

RunStep(s) ==
    \/ RunRecv(s)
    \/ RunStop(s)
    \/ RunRead(s)
    \/ RunWrite(s)
    \/ RunStopSet(s)
    \/ RunDeregisterObserver(s)
    \/ RunReturn(s)

\* The raft node gains or loses leadership (what raft.State() of line 222
\* reads) and owes its observers a LeaderObservation.
LeaderChange ==
    /\ raftSt.phase = "idle"
    /\ raftSt' = [raftSt EXCEPT !.leader = ~@, !.phase = "changed"]
    /\ UNCHANGED <<hsMu, registered, clients, svcs, nsvc, status, hlog>>
    /\ UNCHANGED <<aggVars, concVars, qtVars, regVars>>

\* The delivery starts: raft takes the read lock of its observers and
\* visits the observers it has now.
ObserveBegin ==
    /\ raftSt.phase = "changed"
    /\ raftSt' = [raftSt EXCEPT !.phase = "observing", !.todo = raftSt.observers]
    /\ UNCHANGED <<hsMu, registered, clients, svcs, nsvc, status, hlog>>
    /\ UNCHANGED <<aggVars, concVars, qtVars, regVars>>

\* The next observer is visited, in no particular order.
ObservePick ==
    /\ raftSt.phase = "observing"
    /\ raftSt.cur = NoSvc
    /\ \E s \in raftSt.todo : raftSt' = [raftSt EXCEPT !.cur = s]
    /\ UNCHANGED <<hsMu, registered, clients, svcs, nsvc, status, hlog>>
    /\ UNCHANGED <<aggVars, concVars, qtVars, regVars>>

\* Lines 158, 165: the observer is blocking and svc.c has capacity 1, so
\* the send waits while svc.c holds an observation.
ObserveSend ==
    /\ raftSt.phase = "observing"
    /\ raftSt.cur # NoSvc
    /\ svcs[raftSt.cur].c = 0
    /\ svcs' = [svcs EXCEPT ![raftSt.cur].c = 1]
    /\ raftSt' = [raftSt EXCEPT !.todo = @ \ {raftSt.cur}, !.cur = NoSvc]
    /\ UNCHANGED <<hsMu, registered, clients, nsvc, status, hlog>>
    /\ UNCHANGED <<aggVars, concVars, qtVars, regVars>>

\* Every observer was visited: the read lock is released.
ObserveEnd ==
    /\ raftSt.phase = "observing"
    /\ raftSt.cur = NoSvc
    /\ raftSt.todo = {}
    /\ raftSt' = [raftSt EXCEPT !.phase = "idle"]
    /\ UNCHANGED <<hsMu, registered, clients, svcs, nsvc, status, hlog>>
    /\ UNCHANGED <<aggVars, concVars, qtVars, regVars>>

RaftDeliver == ObserveBegin \/ ObservePick \/ ObserveSend \/ ObserveEnd

HealthInit ==
    /\ AggInit
    /\ input = [i \in Aggs |-> <<>>]
    /\ ConcIdle
    /\ QTIdle
    /\ RegIdle
    /\ HOIdle
    /\ query = TreeQuery(10)

HealthNext ==
    \/ \E h \in Clients :
        \/ RegisterLock(h)
        \/ RegisterCheck(h)
        \/ RegisterReturn(h)
        \/ RegisterRead(h)
        \/ RegisterWrite(h)
        \/ RegisterObserver(h)
        \/ RegisterStore(h)
        \/ DeregisterLookup(h)
        \/ DeregisterClose(h)
        \/ DeregisterWait(h)
    \/ \E s \in Services : RunStep(s)
    \/ LeaderChange
    \/ RaftDeliver

SpecHealth == HealthInit /\ [][HealthNext]_vars

\* ------------------------------------------------------------ properties
\* report.GetTree().GetQuery(): the query a Report carries, nil when it is
\* of another kind.
ReportQuery(report) == IF IsNil(report.Tree) THEN None ELSE Deref(report.Tree).Query

\* The tree a valid Report carries.
Decoded(report) == UnmarshalTree(Deref(report.Tree).Tree).tree

RECURSIVE WeightOfOk(_, _, _)
\* The weight path p has in the Reports of the first k calls of cs that
\* returned no error.
WeightOfOk(cs, k, p) ==
    IF k = 0 THEN 0
    ELSE WeightOfOk(cs, k - 1, p)
            + (IF cs[k].out = "ok" THEN Decoded(cs[k].report)[p] ELSE 0)

Succeeded(i) == [p \in Paths |-> WeightOfOk(calls[i], Len(calls[i]), p)]

HasBuilt(i) == ~IsNil(built[i]) /\ Deref(built[i]).out = "ok"
BuiltReport(i) == Deref(Deref(Deref(built[i]).report).Tree)

\* C1 (as claimed): two fresh aggregators fed the same valid Reports in two
\* orders build the same serialized tree.
C1_AnyOrderSameTree ==
    (HasBuilt(1) /\ HasBuilt(2)) => BuiltReport(1).Tree = BuiltReport(2).Tree

\* C1 (amended): two fresh aggregators fed the same valid Reports in two
\* orders build the same serialized tree when the first Report of both
\* orders carries the same node cap.
C1_SameFirstCapSameTree ==
    (/\ HasBuilt(1) /\ HasBuilt(2)
     /\ Len(input[1]) > 0
     /\ GetMaxNodes(ReportQuery(input[1][1])) = GetMaxNodes(ReportQuery(input[2][1])))
        => BuiltReport(1).Tree = BuiltReport(2).Tree

\* Three Reports with overlapping paths in two different orders, the cap
\* large enough, both built.
C1_Witness ==
    /\ HasBuilt(1) /\ HasBuilt(2)
    /\ Len(input[1]) = 3
    /\ input[1] # input[2]
    /\ input[1][1] # input[2][1]
    /\ GetMaxNodes(ReportQuery(input[1][1])) = 10
    /\ GetMaxNodes(ReportQuery(input[2][1])) = 10
    /\ Len(BuiltReport(1).Tree) = 4

\* C2: once aggregate() has been called, the captured query is the query of
\* the first Report passed, in every later state, and build() returns it.
C2_QueryIsFirstReports ==
    /\ Len(calls[1]) = 0 => IsNil(agg[1].query)
    /\ Len(calls[1]) > 0 => agg[1].query = ReportQuery(calls[1][1].report)
    /\ (HasBuilt(1) /\ Len(calls[1]) > 0)
            => BuiltReport(1).Query = ReportQuery(calls[1][1].report)

\* Later Reports carried another query than the first, and build() ran.
C2_Witness ==
    /\ HasBuilt(1)
    /\ Len(calls[1]) = 3
    /\ ~IsNil(ReportQuery(calls[1][1].report))
    /\ ~IsNil(ReportQuery(calls[1][2].report))
    /\ ReportQuery(calls[1][2].report) # ReportQuery(calls[1][1].report)
    /\ ReportQuery(calls[1][3].report) # ReportQuery(calls[1][1].report)

\* C3 (as claimed): build() on an aggregator that aggregate() was never
\* called on returns the Report of the empty tree.
C3_BuildOnFreshIsEmptyTree ==
    (~IsNil(built[1]) /\ Len(calls[1]) = 0)
        => /\ Deref(built[1]).out = "ok"
           /\ BuiltReport(1).Tree = Bytes(EmptyTree, 0)

\* C4: after any calls, failed ones included, the accumulator is the merge
\* of the Reports of the calls that succeeded, and every call with a valid
\* Report succeeded.
C4_FailedCallLeavesAccumulator ==
    Len(calls[1]) > 0 =>
        /\ ~IsNil(agg[1].tree)
        /\ Deref(agg[1].tree) = Succeeded(1)
        /\ \A k \in 1..Len(calls[1]) :
                IsValid(calls[1][k].report) => calls[1][k].out = "ok"

\* The first call failed, the second merged a tree, the third failed.
C4_Witness ==
    /\ Len(calls[1]) = 3
    /\ calls[1][1].out # "ok"
    /\ calls[1][2].out = "ok"
    /\ calls[1][3].out # "ok"
    /\ Deref(agg[1].tree) # EmptyTree

\* C5 (as claimed): a call with a Report of another kind, or one whose tree
\* bytes do not parse, returns an error.
C5_BadReportReturnsError ==
    \A k \in 1..Len(calls[1]) :
        ~IsValid(calls[1][k].report) => calls[1][k].out = "error"

\* C6: in every interleaving of concurrent calls the once function runs at
\* most once, a.tree and a.query are assigned at most once, both by the
\* call that ran the function; once the once is done the function has run
\* exactly once, and the captured query is the one of that call's Report.
C6_InitExactlyOnce ==
    /\ Len(ghost.ran) <= 1
    /\ Len(ghost.trees) <= 1
    /\ Len(ghost.queries) <= 1
    /\ agg[1].done =>
        /\ Len(ghost.ran) = 1
        /\ ghost.trees = ghost.ran
        /\ agg[1].tree # None
        /\ agg[1].query = ReportQuery(arg[ghost.ran[1]])
        /\ ~IsNil(arg[ghost.ran[1]].Tree) => ghost.queries = ghost.ran
    /\ \A c \in Callers :
        pc[c] \in {"merge", "merging"} => agg[1].done

\* Every call has returned, two of them carried different queries, and one
\* found the once done only after taking its mutex.
C6_Witness ==
    /\ \A c \in Callers : pc[c] = "returned"
    /\ ghost.late # {}
    /\ Len(ghost.queries) = 1
    /\ \E c, d \in Callers :
        /\ ~IsNil(ReportQuery(arg[c])) /\ ~IsNil(ReportQuery(arg[d]))
        /\ ReportQuery(arg[c]) # ReportQuery(arg[d])

\* C7: when only valid Reports were aggregated and the captured cap is not
\* below the size of the merged tree, the built tree holds every path with
\* the sum of its weights over the Reports.
C7_BuiltTreeIsSum ==
    (/\ HasBuilt(1)
     /\ \A k \in 1..Len(calls[1]) : IsValid(calls[1][k].report)
     /\ GetMaxNodes(agg[1].query) >= NodeCount(Succeeded(1)))
        => LET u == UnmarshalTree(BuiltReport(1).Tree) IN
           /\ u.ok
           /\ \A p \in Paths : u.tree[p] = WeightOfOk(calls[1], Len(calls[1]), p)
           /\ Len(BuiltReport(1).Tree) = NodeCount(Succeeded(1))

\* {root->f1: 10} and {root->f2: 5} with cap 10 build root, f1 (10), f2 (5).
C7_Witness ==
    /\ HasBuilt(1)
    /\ Len(calls[1]) = 2
    /\ IsValid(calls[1][1].report) /\ IsValid(calls[1][2].report)
    /\ GetMaxNodes(agg[1].query) = 10
    /\ Decoded(calls[1][1].report) = WeightsB
    /\ Decoded(calls[1][2].report) = WeightsA
    /\ BuiltReport(1).Tree = <<<<0, 0, 0>>, <<1, 1, 10>>, <<1, 2, 5>>>>

\* C8: no resource of queryTree is released more often than it was opened,
\* none is opened twice, and when queryTree has returned, on whatever path,
\* every resource it opened has been released exactly once.
C8_ReleasedOnEveryExit ==
    /\ \A x \in Resources :
        held[x].released <= held[x].opened /\ held[x].opened <= 1
    /\ qpc = "returned" =>
        \A x \in Resources : held[x].released = held[x].opened

\* queryTree was cancelled while streaming rows and has returned, with the
\* iterators and the resolver opened and released.
C8_Witness ==
    /\ qpc = "returned"
    /\ qlog.iterErr = Error("canceled")
    /\ rows > 0
    /\ \A x \in Resources : held[x].opened = 1 /\ held[x].released = 1

\* C9: when the row iterator ended with an error, resolver.Tree() is never
\* called, and queryTree returns that error and no Report, also when a
\* close failed afterwards.
C9_IterErrorReturned ==
    qlog.iterErr # NoError =>
        /\ ~qlog.treeAsked
        /\ qpc \notin {"tree", "respond"}
        /\ qpc \in {"defers", "returned"} =>
                ret = Some([report |-> None, err |-> qlog.iterErr])

\* The iterator ended on a truncated row group and both closes failed.
C9_Witness ==
    /\ qpc = "returned"
    /\ qlog.iterErr = Error("truncated")
    /\ qlog.closeFailed = {"entries", "profiles"}

\* C10 (as claimed): when queryTree has returned, every close that failed
\* is in the error it returned.
C10_CloseFailureReported ==
    qpc = "returned" =>
        \A x \in qlog.closeFailed :
            \E k \in 1..Len(Deref(ret).err) : Deref(ret).err[k] = x

\* C11: the tree build() returns has at most as many nodes as the captured
\* cap, every node it has is a node of the accumulated tree with its
\* weight, and when the cap is not below the size of the accumulated tree
\* it is the whole accumulated tree.
C11_BuiltTreeWithinCap ==
    HasBuilt(1) =>
        LET n == GetMaxNodes(agg[1].query)
            t == Deref(agg[1].tree)
            b == BuiltReport(1).Tree
            u == UnmarshalTree(b)
        IN /\ Len(b) <= n
           /\ u.ok
           /\ \A p \in Paths : u.tree[p] \in {0, t[p]}
           /\ n >= NodeCount(t) => (u.tree = t /\ Len(b) = NodeCount(t))

\* The accumulated tree has four nodes and the captured cap is 2: build()
\* returned the root and the heaviest node.
C11_Witness ==
    /\ HasBuilt(1)
    /\ GetMaxNodes(agg[1].query) = 2
    /\ NodeCount(Deref(agg[1].tree)) = 4
    /\ Len(BuiltReport(1).Tree) = 2

\* C12: every kind holds at most one descriptor, the first one offered for
\* it; a registration of a kind that was registered is rejected; a lookup
\* of a kind that was not registered returns "unsupported" and no
\* descriptor, and a lookup of a registered kind its whole descriptor.
C12_OneDescriptorPerKind ==
    /\ \A k \in QueryKinds : registry[k] = regLog.first[k]
    /\ regLog.reg.had <=> regLog.reg.result = "rejected"
    /\ regLog.lookup.kind # "" =>
        IF regLog.lookup.had
        THEN /\ regLog.lookup.result = "found"
             /\ regLog.lookup.desc = regLog.first[regLog.lookup.kind]
        ELSE /\ regLog.lookup.result = "unsupported"
             /\ IsNil(regLog.lookup.desc)

\* init() has registered the tree query, a second tree query was offered
\* and rejected, and a lookup of a kind not registered was unsupported.
C12_Witness ==
    /\ registry["QUERY_TREE"] = Some(TreeDescriptor)
    /\ regLog.reg.kind = "QUERY_TREE"
    /\ regLog.reg.desc # Some(TreeDescriptor)
    /\ regLog.reg.result = "rejected"
    /\ regLog.lookup.kind = "QUERY_A"
    /\ regLog.lookup.result = "unsupported"

\* C13: a call that has passed the once holds no lock, and it can start its
\* merge step whatever the other calls are doing, also while another call
\* is inside its merge step.
C13_MergeNotExclusive ==
    \A c \in Callers :
        /\ pc[c] \in {"merge", "merging"} => onceM # c
        /\ pc[c] = "merge" => ENABLED MergeEnter(c)

\* Two calls are inside the merge step at the same time.
C13_Witness ==
    \E c, d \in Callers : c # d /\ pc[c] = "merging" /\ pc[d] = "merging"

\* C14: while a call is at or in its merge step, the once is done, a.tree
\* is assigned and no call is running the once function; the calls between
\* the lock and the unlock of the once hold its mutex, one at a time.
InOnce == {"check", "newTree", "capture", "store", "storeOnPanic", "unlock", "unlockOnPanic"}

C14_MergeAfterInit ==
    /\ \A c \in Callers :
        pc[c] \in {"merge", "merging"} =>
            /\ agg[1].done
            /\ ~IsNil(agg[1].tree)
            /\ \A d \in Callers : pc[d] \notin {"newTree", "capture", "store", "storeOnPanic"}
    /\ \A c \in Callers : pc[c] \in InOnce <=> onceM = c

\* A call that found the once already done under its mutex is inside the
\* merge step.
C14_Witness ==
    \E c \in ghost.late : pc[c] = "merging" /\ agg[1].done

\* C15: once Deregister has returned for a service it found registered,
\* the stop branch of that service has written NOT_SERVING, its observer
\* is not registered with raft, done is closed and run() has exited, and
\* the service has written no status since.
C15_DeregisterStopsService ==
    \A s \in hlog.returned :
        /\ s \in hlog.stopped
        /\ s \notin raftSt.observers
        /\ svcs[s].done
        /\ svcs[s].pc = "exited"
        /\ s \notin hlog.late

\* A Deregister has returned for a service it found registered.
C15_Witness ==
    \E s \in hlog.returned : svcs[s].stop /\ \A h \in Clients : clients[h].svc # s

\* C16: with the only service ever registered still registered, no call
\* running, no observation being delivered or waiting in svc.c and run()
\* in its select, the status is SERVING exactly when raft is leader.
C16_StatusFollowsLeader ==
    (/\ nsvc = 1
     /\ registered = 1
     /\ \A h \in Clients : clients[h].pc = "idle"
     /\ raftSt.phase = "idle"
     /\ svcs[1].pc = "select"
     /\ svcs[1].c = 0)
        => status = StatusOf(raftSt.leader)

\* C17: when no call is running and the key is registered, the status is
\* the one the registered service wrote last.
C17_StatusOfCurrentRegistration ==
    (/\ registered # NoSvc
     /\ \A h \in Clients : clients[h].pc = "idle")
        => status = hlog.written[registered]

\* C18: while stop is closed and done is not, the service's run() can take
\* a step, or raft can go on with its delivery, or the run() of the
\* service raft is sending to can take a step.
C18_StopLeadsToDone ==
    \A s \in Services :
        (svcs[s].stop /\ ~svcs[s].done) =>
            \/ ENABLED RunStep(s)
            \/ ENABLED RaftDeliver
            \/ raftSt.cur \notin {NoSvc, s} /\ ENABLED RunStep(raftSt.cur)

\* C19: a Register that finds the key present returns, releasing hs.mu,
\* and changes neither the map, nor a service, nor the raft observers, nor
\* the status; a Register goes on to create a service only while the key
\* is absent, holding hs.mu until it has stored the service.
RegisterCreating == {"regRead", "regWrite", "regObserve", "regStore"}

C19_RegisterPresentKeyNoEffect ==
    /\ [](\A h \in Clients :
            clients[h].pc \in RegisterCreating => registered = NoSvc /\ hsMu = h)
    /\ [][\A h \in Clients :
            /\ (clients[h].pc = "regCheck" /\ registered # NoSvc /\ clients'[h] # clients[h]) =>
                /\ clients'[h] = [clients[h] EXCEPT !.pc = "regReturn"]
                /\ UNCHANGED <<hsMu, registered, svcs, nsvc, raftSt, status, hlog>>
            /\ (clients[h].pc = "regReturn" /\ clients'[h] # clients[h]) =>
                /\ clients'[h] = [clients[h] EXCEPT !.pc = "idle"]
                /\ hsMu' = 0
                /\ UNCHANGED <<registered, svcs, nsvc, raftSt, status, hlog>>]_vars

\* A Register has found the key present and is about to return.
C19_Witness ==
    \E h \in Clients : clients[h].pc = "regReturn" /\ registered # NoSvc

====
